---------------------------- MODULE Spec2Model ----------------------------
(***************************************************************************)
(* A model of the preloader client (src/client.c): the 32-bit codec, the   *)
(* request marshaller, send_all, the four connects, the poll-driven relay  *)
(* and the exit-status read.                                               *)
(*                                                                         *)
(* Integers of the model are TLC integers (32-bit), so every C value is    *)
(* kept inside [INT32_MIN, INT32_MAX]: a uint8_t is 0..255, an int32_t is  *)
(* its signed value, and a shift that leaves the range is computed by the  *)
(* two's complement result the build produces.                             *)
(***************************************************************************)
EXTENDS Integers, Sequences, FiniteSets, TLC

(***************************************************************************)
(* Bounds of the model (not program constants).                            *)
(***************************************************************************)
\* Int32 inputs of the codec: MaxK values next to each corner of the range.
MaxK == 12
\* Longest argument string and longest argument list of the generated
\* command lines.
MaxStrLen == 2
MaxArgs == 2
\* Bytes each relay source can deliver before it reports end of file.
MaxData == 2
\* Longest buffer handed to send_all by the send_all harness.
MaxBuf == 4
MaxPortLen == 3
MemSize == 40
MaxImages == 2
MaxCalls == 4

(***************************************************************************)
(* Machine integers.                                                       *)
(***************************************************************************)
INT32_MAX == 2147483647
INT32_MIN == (-2147483647) - 1

Pow2(k) == 2 ^ k

Min(a, b) == IF a < b THEN a ELSE b

\* C's x | y and x & y on int operands, bit by bit on the two's complement
\* representation: x \div 2 is the arithmetic shift by one, which ends in 0
\* (all bits clear) or -1 (all bits set).
RECURSIVE BitOr(_, _)
BitOr(x, y) ==
    IF x = 0 THEN y
    ELSE IF y = 0 THEN x
    ELSE IF x = -1 \/ y = -1 THEN -1
    ELSE 2 * BitOr(x \div 2, y \div 2)
           + (IF x % 2 = 1 \/ y % 2 = 1 THEN 1 ELSE 0)

RECURSIVE BitAnd(_, _)
BitAnd(x, y) ==
    IF x = 0 \/ y = 0 THEN 0
    ELSE IF x = -1 THEN y
    ELSE IF y = -1 THEN x
    ELSE 2 * BitAnd(x \div 2, y \div 2)
           + (IF x % 2 = 1 /\ y % 2 = 1 THEN 1 ELSE 0)

\* C's x >> k on an int (arithmetic shift) and the conversion to uint8_t.
Shr(x, k) == x \div Pow2(k)
ToU8(x) == x % 256

\* C's b << k for a uint8_t b promoted to int, k in {0, 8, 16, 24}: the low
\* 32 bits of b * 2^k read as an int (b << 24 reaches the sign bit when
\* b >= 128).
ShlByte(b, k) ==
    IF k = 24 /\ b >= 128 THEN (b - 256) * Pow2(24) ELSE b * Pow2(k)

(***************************************************************************)
(* Protocol codec.                                                         *)
(***************************************************************************)
\* A mutation of int32_to_msg: the bytes stored in little-endian order.
int32_to_msg_le(msg) ==
    << ToU8(Shr(msg, 0)), ToU8(Shr(msg, 8)), ToU8(Shr(msg, 16)), ToU8(Shr(msg, 24)) >>

\* int32_to_msg: msg_buff[0..3], here a sequence indexed 1..4.
int32_to_msg(msg) ==
    << ToU8(Shr(msg, 24)), ToU8(Shr(msg, 16)), ToU8(Shr(msg, 8)), ToU8(Shr(msg, 0)) >>

\* msg_to_int32: (msg[3] << 0) | (msg[2] << 8) | (msg[1] << 16) | (msg[0] << 24).
msg_to_int32(msg) ==
    BitOr(BitOr(BitOr(ShlByte(msg[4], 0), ShlByte(msg[3], 8)),
                ShlByte(msg[2], 16)),
          ShlByte(msg[1], 24))


(***************************************************************************)
(* C strings: sequences of non-zero char codes (the terminating NUL is     *)
(* implicit).                                                              *)
(***************************************************************************)
PRG_NAME == << 99, 108, 105, 101, 110, 116 >>          \* "client"
DotSlashPrgName == << 46, 47 >> \o PRG_NAME           \* "./" PRG_NAME
DashP == << 45, 112 >>                                \* "-p"
SV_DEFAULT_PORT == 3636
EXIT_FAILURE == 1
\* main, line 363: ret = 42.
RetDefault == 42

isspace(c) == c \in {32, 9, 10, 11, 12, 13}
isdigit(c) == c \in 48..57

\* strtol(s, &end, 10) on a string whose first char is no white space:
\* an optional sign, then the longest run of digits. "end" is the index
\* (1-based) of the first char not consumed, 1 when there is no digit.
\* "range" is -1, 0, 1 as the value is below INT_MIN, inside int, or above
\* INT_MAX (the long value itself is kept only when it fits an int).
strtol(s) ==
    LET signed == Len(s) >= 1 /\ s[1] \in {43, 45}
        neg == Len(s) >= 1 /\ s[1] = 45
        first == IF signed THEN 2 ELSE 1
        stop[i \in 1..(Len(s) + 1)] ==
            IF i > Len(s) \/ ~isdigit(s[i]) THEN i ELSE stop[i + 1]
        last == stop[first]
        \* acc[i]: <<value, range>> after the digits first..i-1
        acc[i \in first..last] ==
            IF i = first THEN << 0, 0 >>
            ELSE LET a == acc[i - 1]
                     d == s[i - 1] - 48
                 IN  IF a[2] # 0 THEN a
                     ELSE IF neg
                          THEN (IF -a[1] > (IF d = 0 THEN INT32_MAX \div 10
                                            ELSE (INT32_MAX - d + 1) \div 10)
                                THEN << 0, -1 >>
                                ELSE << a[1] * 10 - d, 0 >>)
                          ELSE (IF a[1] > (INT32_MAX - d) \div 10
                                THEN << 0, 1 >>
                                ELSE << a[1] * 10 + d, 0 >>)
    IN  IF first > Len(s) \/ last = first
        THEN [l |-> 0, range |-> 0, end |-> 1]
        ELSE [l |-> acc[last][1], range |-> acc[last][2], end |-> last]

\* str2int without the test of *end: trailing chars are ignored.
str2int_ignores_tail(old, s) ==
    IF Len(s) = 0 \/ isspace(s[1]) THEN [ret |-> -1, out |-> old]
    ELSE LET r == strtol(s)
         IN  IF r.range # 0 THEN [ret |-> -1, out |-> old]
             ELSE [ret |-> 0, out |-> r.l]

\* str2int: [ret, out], out being *out after the call (old when ret < 0).
str2int(old, s) ==
    IF Len(s) = 0 \/ isspace(s[1]) THEN [ret |-> -1, out |-> old]
    ELSE LET r == strtol(s)
         IN  IF r.range = 1 THEN [ret |-> -1, out |-> old]
             ELSE IF r.range = -1 THEN [ret |-> -1, out |-> old]
             ELSE IF r.end <= Len(s) THEN [ret |-> -1, out |-> old]
             ELSE [ret |-> 0, out |-> r.l]

\* parse_args: [usage, port, new_argv]; usage = TRUE when usage() is called
\* (the process exits with EXIT_FAILURE). new_argc is Len(new_argv).
parse_args(av) ==
    LET argc == Len(av)
        Usage == [usage |-> TRUE, port |-> SV_DEFAULT_PORT, new_argv |-> << >>]
    IN  IF argc < 2 THEN Usage
        ELSE IF av[1] = PRG_NAME \/ av[1] = DotSlashPrgName
        THEN IF av[2] = DashP
             THEN IF argc < 4 THEN Usage
                  ELSE LET c == str2int(SV_DEFAULT_PORT, av[3])
                       IN  IF c.ret < 0 \/ c.out < 0 \/ c.out > 65535
                           THEN Usage
                           ELSE [usage |-> FALSE, port |-> c.out,
                                 new_argv |-> SubSeq(av, 4, argc)]
             ELSE [usage |-> FALSE, port |-> SV_DEFAULT_PORT,
                   new_argv |-> SubSeq(av, 2, argc)]
        ELSE [usage |-> FALSE, port |-> SV_DEFAULT_PORT, new_argv |-> av]

(***************************************************************************)
(* Argument marshaller.                                                    *)
(***************************************************************************)
strlen(s) == Len(s)

\* strlen(p) for p = buf + off (off is 0-based): the chars before the
\* first NUL.
StrLenAt(buf, off) ==
    LET n[i \in off..Len(buf)] ==
            IF i >= Len(buf) \/ buf[i + 1] = 0 THEN 0 ELSE 1 + n[i + 1]
    IN  n[off]

\* strcpy(buf + off, s): the chars of s and its NUL.
StrCpyAt(buf, off, s) ==
    [i \in 1..Len(buf) |->
        IF i > off /\ i <= off + Len(s) THEN s[i - off]
        ELSE IF i = off + Len(s) + 1 THEN 0
        ELSE buf[i]]

SumLen(strs) ==
    LET t[i \in 0..Len(strs)] == IF i = 0 THEN 0 ELSE t[i - 1] + strlen(strs[i])
    IN  t[Len(strs)]

\* A mutation of the byte count of prepare_data: the "+ 1" of the working
\* directory's NUL is left out.
payload_amnt_short(cwd, av) == strlen(cwd) + SumLen(av) + Len(av)

\* prepare_data, lines 130-133: amnt.
payload_amnt(cwd, av) == strlen(cwd) + SumLen(av) + Len(av) + 1

\* A mutation of the fill loop of prepare_data: p advances by strlen(p)
\* only, so each string overwrites the NUL of the one before it.
payload_fill_nosep(cwd, av, amnt) ==
    LET zero == [i \in 1..(amnt + 1) |-> 0]
        b0 == StrCpyAt(zero, 0, cwd)
        st[i \in 0..Len(av)] ==
            IF i = 0 THEN [buf |-> b0, p |-> StrLenAt(b0, 0)]
            ELSE LET b == StrCpyAt(st[i - 1].buf, st[i - 1].p, av[i])
                 IN  [buf |-> b, p |-> st[i - 1].p + StrLenAt(b, st[i - 1].p)]
    IN  st[Len(av)].buf

\* prepare_data, lines 138-149: the calloc'ed buffer of amnt + 1 bytes
\* after the strcpy of cwd and of each argument.
payload_fill(cwd, av, amnt) ==
    LET zero == [i \in 1..(amnt + 1) |-> 0]
        b0 == StrCpyAt(zero, 0, cwd)
        st[i \in 0..Len(av)] ==
            IF i = 0 THEN [buf |-> b0, p |-> StrLenAt(b0, 0) + 1]
            ELSE LET b == StrCpyAt(st[i - 1].buf, st[i - 1].p, av[i])
                 IN  [buf |-> b, p |-> st[i - 1].p + StrLenAt(b, st[i - 1].p) + 1]
    IN  st[Len(av)].buf

\* prepare_data on success: the run_data it fills and the value it returns.
prepare_data(cwd, av) ==
    LET amnt == payload_amnt(cwd, av)
    IN  [argc |-> int32_to_msg(Len(av)),
         amt_bytes |-> int32_to_msg(amnt),
         cwd_argv |-> payload_fill(cwd, av, amnt),
         ret |-> amnt]

(***************************************************************************)
(* State.                                                                  *)
(*   pc, exit_status, err_msg   where the process is; the status of        *)
(*                              exit() and the message die() printed       *)
(*   argv, env_cwd              the command line and the working directory *)
(*   port .. sock_stdin         the locals of main                         *)
(*   fdt, conn_log              the sockets of the process as the kernel   *)
(*                              sees them, and the connect() calls made    *)
(*   sa                         the frame of send_all                      *)
(*   buff                       the static buffer of handle_poll_event     *)
(*   src_pos, dst               bytes read from each relay source, bytes   *)
(*                              written to each relay destination          *)
(*   svc                        the handle_poll_event calls made since the *)
(*                              last return of poll                        *)
(*   poll_ret                   the value poll returned last               *)
(*   h_in, v_in, msg_buff, msg_int  inputs and results of the harnesses    *)
(*                              of send_all and of the codec               *)
(*   mem                        the memory the patcher writes to           *)
(*   arch_addr_start, patch, bck_start  the statics of arch_aarch64.c      *)
(*   arch_ret                   the value the last patcher call returned   *)
(*   hook, big_endian           the address of arch_pre_daemon_main and    *)
(*                              the byte order of the build                *)
(*   calls                      the patcher calls made so far, each with   *)
(*                              the memory it found                        *)
(***************************************************************************)
VARIABLES pc, exit_status, err_msg, argv, env_cwd,
          port, new_argv, rd, amnt, ret, ret_buff, is_eof, fds,
          sock, sock_stdout, sock_stderr, sock_stdin,
          fdt, conn_log, sa, buff, src_pos, dst, svc, poll_ret,
          h_in, v_in, msg_buff, msg_int,
          mem, arch_addr_start, patch, bck_start, arch_ret, hook, big_endian,
          calls

procVars == << pc, exit_status, err_msg >>
inputVars == << argv, env_cwd >>
sockVars == << sock, sock_stdout, sock_stderr, sock_stdin >>
mainVars == << port, new_argv, rd, amnt, ret, ret_buff, is_eof, fds >>
osVars == << fdt, conn_log >>
relayVars == << buff, src_pos, dst, svc, poll_ret >>
harnessVars == << h_in, v_in, msg_buff, msg_int >>
archVars == << mem, arch_addr_start, patch, bck_start, arch_ret, hook,
              big_endian, calls >>
vars == << procVars, inputVars, sockVars, mainVars, osVars, sa, relayVars,
           harnessVars, archVars >>

\* File descriptors: 0, 1, 2 are the standard streams, socket() hands out
\* the lowest free descriptor above them.
STDIN_FILENO == 0
STDOUT_FILENO == 1
STDERR_FILENO == 2
SockFds == 3..6

POLLIN == 1
POLLERR == 8
POLLHUP == 16
POLLNVAL == 32

NoSocket == [state |-> "unused", port |-> -1, connected |-> FALSE,
             sent |-> << >>, shut |-> FALSE, closes |-> 0]
NoFrame == [conn |-> -1, buf |-> << >>, n |-> 0, p |-> 0, len |-> 0,
            last |-> 0, ret |-> 0, caller |-> "none"]

\* arch_aarch64.c, lines 44-51: sizeof patch and the initializer of patch
\* (ldr x1, 8; blr x1; eight bytes for the target address).
PatchSize == 16
patch_init == << 65, 0, 0, 88, 32, 0, 63, 214, 0, 0, 0, 0, 0, 0, 0, 0 >>

\* The addresses of the modelled memory; 0 is the null pointer.
Addrs == 1..MemSize

\* What the memory holds before any patch: a different byte at every
\* address, k selects the image.
MemImage(k) == [a \in Addrs |-> (a * 37 + k * 101 + 11) % 256]

\* The state before main runs. A local of main that is not initialised
\* holds a placeholder here; main assigns each before it reads it. The
\* statics of arch_aarch64.c hold their initializers.
Blank ==
    /\ exit_status = -1 /\ err_msg = ""
    /\ port = 0 /\ new_argv = << >>
    /\ rd = [argc |-> << 0, 0, 0, 0 >>, amt_bytes |-> << 0, 0, 0, 0 >>,
             cwd_argv |-> << >>]
    /\ amnt = 0 /\ ret = 0 /\ ret_buff = << 0, 0, 0, 0 >> /\ is_eof = 0
    /\ fds = [i \in 0..2 |-> [fd |-> 0, events |-> 0, revents |-> 0]]
    /\ sock = -1 /\ sock_stdout = -1 /\ sock_stderr = -1 /\ sock_stdin = -1
    /\ conn_log = << >>
    /\ sa = NoFrame
    /\ buff = << >>
    /\ src_pos = [i \in 0..2 |-> 0]
    /\ dst = [i \in 0..2 |-> << >>]
    /\ svc = << >>
    /\ poll_ret = 0
    /\ msg_buff = << 0, 0, 0, 0 >> /\ msg_int = 0
    /\ arch_addr_start = 0
    /\ patch = patch_init
    /\ bck_start = [i \in 1..PatchSize |-> 0]
    /\ arch_ret = 0
    /\ calls = << >>

\* The patcher's surroundings in the runs that never call it.
ArchUnused ==
    /\ mem = MemImage(0)
    /\ hook = << 0, 43690, 49374, 4660 >>
    /\ big_endian = FALSE

\* die(...): the message goes to stderr and the process exits.
die(msg) ==
    /\ pc' = "exit"
    /\ exit_status' = EXIT_FAILURE
    /\ err_msg' = msg

(***************************************************************************)
(* Codec harness: encode an int32, decode the four bytes.                  *)
(***************************************************************************)
Int32Samples ==
    {INT32_MIN + k : k \in 0..MaxK} \cup {INT32_MAX - k : k \in 0..MaxK}
    \cup {k : k \in 0..MaxK} \cup {(-1) - k : k \in 0..MaxK}
    \cup {hi * Pow2(24) + b1 * Pow2(16) + b2 * Pow2(8) + b3 :
            hi \in {-128, -1, 0, 1, 127}, b1 \in {0, 128, 255},
            b2 \in {0, 128, 255}, b3 \in {0, 42, 255}}

InitCodec ==
    /\ Blank
    /\ ArchUnused
    /\ pc = "codec_in"
    /\ argv = << >> /\ env_cwd = << >>
    /\ h_in = [conn |-> -1, buf |-> << >>]
    /\ fdt = [f \in SockFds |-> NoSocket]
    /\ v_in \in Int32Samples

CodecEncode ==
    /\ pc = "codec_in"
    /\ msg_buff' = int32_to_msg(v_in)
    /\ pc' = "codec_encoded"
    /\ UNCHANGED << exit_status, err_msg, inputVars, sockVars, mainVars, osVars,
                    sa, relayVars, h_in, v_in, msg_int, archVars >>

CodecDecode ==
    /\ pc = "codec_encoded"
    /\ msg_int' = msg_to_int32(msg_buff)
    /\ pc' = "codec_decoded"
    /\ UNCHANGED << exit_status, err_msg, inputVars, sockVars, mainVars, osVars,
                    sa, relayVars, h_in, v_in, msg_buff, archVars >>

NextCodec == CodecEncode \/ CodecDecode

SpecCodec == InitCodec /\ [][NextCodec]_vars

\* C7: for every int32 v, msg_to_int32(int32_to_msg(v)) = v, and the four
\* encoded bytes are the big-endian digits of v modulo 2^32: each is in
\* 0..255 and byte0 * 2^24 + byte1 * 2^16 + byte2 * 2^8 + byte3 is v modulo
\* 2^32 (stated with byte0 - 256 in place of byte0 when v is negative).
C7_RoundTripBigEndian ==
    /\ pc \in {"codec_encoded", "codec_decoded"} =>
         /\ Len(msg_buff) = 4
         /\ \A i \in 1..4 : msg_buff[i] \in 0..255
         /\ LET hi == IF v_in < 0 THEN msg_buff[1] - 256 ELSE msg_buff[1]
            IN  /\ hi \in -128..127
                /\ hi * 16777216 + msg_buff[2] * 65536 + msg_buff[3] * 256
                     + msg_buff[4] = v_in
    /\ pc = "codec_decoded" => msg_int = v_in

\* C7 witness: INT32_MIN has been encoded as 80 00 00 00 and decoded.
C7_Witness ==
    /\ pc = "codec_decoded"
    /\ v_in = INT32_MIN
    /\ msg_buff = << 128, 0, 0, 0 >>
    /\ msg_int = INT32_MIN

(***************************************************************************)
(* send_all.                                                               *)
(***************************************************************************)
\* What main does when send_all returns r to the call site "caller".
SendErrMsg(caller) ==
    CASE caller = "send_argc" -> "Cant send argc, aborting!..."
      [] caller = "send_amt_bytes" -> "Cant send amt_bytes, aborting!..."
      [] caller = "send_cwd_argv" -> "Cant send cwd_argv, aborting!..."

\* A main that goes from argc straight to cwd_argv.
AfterSend_skip_amt_bytes(caller) ==
    CASE caller = "send_argc" -> "send_cwd_argv"
      [] caller = "send_amt_bytes" -> "send_cwd_argv"
      [] caller = "send_cwd_argv" -> "connect_stdout"

AfterSend(caller) ==
    CASE caller = "send_argc" -> "send_amt_bytes"
      [] caller = "send_amt_bytes" -> "send_cwd_argv"
      [] caller = "send_cwd_argv" -> "connect_stdout"

\* send_all returns r: the harness keeps the frame to read the result, main
\* (lines 378-383) dies when r < 0 and goes on otherwise.
send_all_return(frame, r) ==
    IF frame.caller = "harness"
    THEN /\ sa' = [frame EXCEPT !.ret = r]
         /\ pc' = "returned"
         /\ UNCHANGED << exit_status, err_msg >>
    ELSE /\ sa' = NoFrame
         /\ IF r < 0
            THEN die(SendErrMsg(frame.caller))
            ELSE pc' = AfterSend(frame.caller) /\ UNCHANGED << exit_status, err_msg >>

\* A mutation of the loop body of send_all: len is decremented but p is not
\* advanced, so every send starts again at the first byte.
send_all_advance_stuck(frame, r) ==
    [frame EXCEPT !.len = frame.len - r, !.last = r]

\* send_all, lines 98-99: p += ret; len -= ret.
send_all_advance(frame, r) ==
    [frame EXCEPT !.p = frame.p + r, !.len = frame.len - r, !.last = r]

\* send_all, lines 89-92: the call. The frame keeps buf, the length n asked
\* for, the offset p of the next byte and the count len still to send.
send_all_call(caller, conn, buf, len) ==
    LET frame == [conn |-> conn, buf |-> buf, n |-> len, p |-> 0, len |-> len,
                  last |-> 0, ret |-> 0, caller |-> caller]
    IN  /\ IF conn < 0 THEN send_all_return(frame, -1)
           ELSE IF len = 0 THEN send_all_return(frame, 0)
           ELSE /\ sa' = frame
                /\ pc' = "send_all"
                /\ UNCHANGED << exit_status, err_msg >>
        /\ UNCHANGED << fdt, conn_log >>

\* send_all, lines 93-101: one iteration of the loop. send() fails (-1) or
\* accepts the first r of the len bytes at p; the function returns 0 when
\* len reaches 0.
send_all_loop ==
    /\ pc = "send_all"
    /\ \/ /\ send_all_return([sa EXCEPT !.last = -1], -1)
          /\ UNCHANGED fdt
       \/ \E r \in 1..sa.len :
            LET nf == send_all_advance(sa, r)
            IN  /\ fdt' = [fdt EXCEPT ![sa.conn].sent =
                              @ \o SubSeq(sa.buf, sa.p + 1, sa.p + r)]
                /\ IF nf.len = 0
                   THEN send_all_return(nf, 0)
                   ELSE /\ sa' = nf
                        /\ UNCHANGED procVars
    /\ UNCHANGED << inputVars, sockVars, mainVars, conn_log, relayVars,
                    harnessVars, archVars >>

(***************************************************************************)
(* send_all harness: one call on a connected socket (or on conn = -1) with *)
(* a buffer of distinct bytes.                                             *)
(***************************************************************************)
HarnessBufs == {[i \in 1..n |-> 10 * k + i] : n \in 0..MaxBuf, k \in 1..3}

\* The socket the harness sends on, as do_connect leaves it.
HarnessSocket ==
    [state |-> "open", port |-> SV_DEFAULT_PORT, connected |-> TRUE,
     sent |-> << >>, shut |-> FALSE, closes |-> 0]

InitSend ==
    /\ Blank
    /\ ArchUnused
    /\ pc = "harness"
    /\ argv = << >> /\ env_cwd = << >>
    /\ v_in = 0
    /\ fdt = [f \in SockFds |-> IF f = 3 THEN HarnessSocket ELSE NoSocket]
    /\ h_in \in [conn : {-1, 3}, buf : HarnessBufs]

HarnessSend ==
    /\ pc = "harness"
    /\ send_all_call("harness", h_in.conn, h_in.buf, Len(h_in.buf))
    /\ UNCHANGED << inputVars, sockVars, mainVars, relayVars, harnessVars, archVars >>

NextSend == HarnessSend \/ send_all_loop

SpecSend == InitSend /\ [][NextSend]_vars

\* The bytes the peer of descriptor f has been sent.
Sent(f) == IF f \in SockFds THEN fdt[f].sent ELSE << >>

IsPrefix(a, b) == Len(a) <= Len(b) /\ a = SubSeq(b, 1, Len(a))

\* C4: send_all returns 0 only when the bytes accepted by the successive
\* send calls are exactly the buffer (each send resuming at the first unsent
\* byte, so what was accepted so far is always a prefix of the buffer); it
\* returns -1 when conn < 0 or a send fails, and only then.
C4_SendAllOrNothing ==
    /\ pc \in {"send_all", "returned"} =>
         /\ IsPrefix(Sent(h_in.conn), h_in.buf)
         /\ sa.p = Len(Sent(h_in.conn))
         /\ sa.p + sa.len = Len(h_in.buf)
    /\ pc = "returned" =>
         /\ sa.ret \in {0, -1}
         /\ sa.ret = 0 => h_in.conn >= 0 /\ Sent(h_in.conn) = h_in.buf
         /\ h_in.conn < 0 => sa.ret = -1
         /\ sa.last = -1 => sa.ret = -1
         /\ sa.ret = -1 => h_in.conn < 0 \/ sa.last = -1

\* C4 witness: a buffer of at least two bytes went out in more than one send
\* (the last send took one byte) and send_all returned 0.
C4_Witness ==
    /\ pc = "returned"
    /\ sa.ret = 0
    /\ Len(h_in.buf) >= 2
    /\ sa.last = 1
    /\ Sent(h_in.conn) = h_in.buf

(***************************************************************************)
(* main, lines 363-398: arguments, request, connections.                   *)
(***************************************************************************)
\* The lowest descriptor socket() can hand out.
NewFd == CHOOSE f \in SockFds :
            fdt[f].state = "unused" /\ \A g \in SockFds : g < f => fdt[g].state # "unused"

\* The conversion of an int argument to the uint16_t parameter of do_connect.
ToU16(x) == x % 65536

\* do_connect(p, &s) once socket() has succeeded: s is NewFd, connect() to
\* 127.0.0.1:(uint16_t)p returns r.
do_connect(p, r) ==
    /\ fdt' = [fdt EXCEPT ![NewFd] = [NoSocket EXCEPT !.state = "open",
                                                     !.port = ToU16(p),
                                                     !.connected = (r = 0)]]
    /\ conn_log' = Append(conn_log, [fd |-> NewFd, port |-> ToU16(p)])

\* do_connect, lines 292-294: socket() fails.
socket_fails ==
    /\ die("Unable to create a socket!")
    /\ UNCHANGED << fdt, conn_log >>

ParseArgs ==
    /\ pc = "parse_args"
    /\ ret' = RetDefault
    /\ LET r == parse_args(argv)
       IN  IF r.usage
           THEN /\ die("Usage:")
                /\ UNCHANGED << port, new_argv >>
           ELSE /\ port' = r.port
                /\ new_argv' = r.new_argv
                /\ pc' = "prepare_data"
                /\ UNCHANGED << exit_status, err_msg >>
    /\ UNCHANGED << inputVars, sockVars, rd, amnt, ret_buff, is_eof, fds,
                    osVars, sa, relayVars, harnessVars, archVars >>

\* main, lines 370-371, with prepare_data: getcwd or calloc may fail.
PrepareData ==
    /\ pc = "prepare_data"
    /\ \/ /\ rd' = [rd EXCEPT !.argc = int32_to_msg(Len(new_argv))]
          /\ amnt' = -1
          /\ die("Unable to prepare data to be sent!")
       \/ /\ rd' = [rd EXCEPT !.argc = int32_to_msg(Len(new_argv)),
                              !.amt_bytes =
                                  int32_to_msg(payload_amnt(env_cwd, new_argv))]
          /\ amnt' = -1
          /\ die("Unable to prepare data to be sent!")
       \/ LET r == prepare_data(env_cwd, new_argv)
          IN  /\ rd' = [argc |-> r.argc, amt_bytes |-> r.amt_bytes,
                        cwd_argv |-> r.cwd_argv]
              /\ amnt' = r.ret
              /\ pc' = "connect_sv"
              /\ UNCHANGED << exit_status, err_msg >>
    /\ UNCHANGED << inputVars, sockVars, port, new_argv, ret, ret_buff, is_eof,
                    fds, osVars, sa, relayVars, harnessVars, archVars >>

\* A mutation of main: the request is not sent before the I/O connects.
AfterConnectSv_skip_request == "connect_stdout"

\* main, lines 374-378: what follows a successful control connect.
AfterConnectSv == "send_argc"

\* main, lines 374-375.
ConnectSv ==
    /\ pc = "connect_sv"
    /\ \/ socket_fails /\ UNCHANGED sock
       \/ \E r \in {0, -1} :
            /\ do_connect(port, r)
            /\ sock' = NewFd
            /\ IF r < 0 THEN die("Unable to connect on sv port!")
               ELSE pc' = AfterConnectSv /\ UNCHANGED << exit_status, err_msg >>
    /\ UNCHANGED << inputVars, sock_stdout, sock_stderr, sock_stdin, mainVars,
                    sa, relayVars, harnessVars, archVars >>

\* main, lines 378-383: the three calls of send_all.
SendArgc ==
    /\ pc = "send_argc"
    /\ send_all_call("send_argc", sock, rd.argc, 4)
    /\ UNCHANGED << inputVars, sockVars, mainVars, relayVars, harnessVars, archVars >>

SendAmtBytes ==
    /\ pc = "send_amt_bytes"
    /\ send_all_call("send_amt_bytes", sock, rd.amt_bytes, 4)
    /\ UNCHANGED << inputVars, sockVars, mainVars, relayVars, harnessVars, archVars >>

SendCwdArgv ==
    /\ pc = "send_cwd_argv"
    /\ send_all_call("send_cwd_argv", sock, rd.cwd_argv, amnt)
    /\ UNCHANGED << inputVars, sockVars, mainVars, relayVars, harnessVars, archVars >>

\* main, lines 386-387.
ConnectStdout ==
    /\ pc = "connect_stdout"
    /\ \/ socket_fails /\ UNCHANGED sock_stdout
       \/ \E r \in {0, -1} :
            /\ do_connect(port + 1, r)
            /\ sock_stdout' = NewFd
            /\ IF r < 0 THEN die("Unable to connect on stdout port!")
               ELSE pc' = "connect_stderr" /\ UNCHANGED << exit_status, err_msg >>
    /\ UNCHANGED << inputVars, sock, sock_stderr, sock_stdin, mainVars,
                    sa, relayVars, harnessVars, archVars >>

\* main, lines 388-389.
ConnectStderr ==
    /\ pc = "connect_stderr"
    /\ \/ socket_fails /\ UNCHANGED sock_stderr
       \/ \E r \in {0, -1} :
            /\ do_connect(port + 2, r)
            /\ sock_stderr' = NewFd
            /\ IF r < 0 THEN die("Unable to connect on stderr port!")
               ELSE pc' = "connect_stdin" /\ UNCHANGED << exit_status, err_msg >>
    /\ UNCHANGED << inputVars, sock, sock_stdout, sock_stdin, mainVars,
                    sa, relayVars, harnessVars, archVars >>

\* main, lines 390-391.
ConnectStdin ==
    /\ pc = "connect_stdin"
    /\ \/ socket_fails /\ UNCHANGED sock_stdin
       \/ \E r \in {0, -1} :
            /\ do_connect(port + 3, r)
            /\ sock_stdin' = NewFd
            /\ IF r < 0 THEN die("Unable to connect on stdin port!")
               ELSE pc' = "setup_fds" /\ UNCHANGED << exit_status, err_msg >>
    /\ UNCHANGED << inputVars, sock, sock_stdout, sock_stderr, mainVars,
                    sa, relayVars, harnessVars, archVars >>

\* main, lines 396-398.
SetupFds ==
    /\ pc = "setup_fds"
    /\ fds' = [i \in 0..2 |->
                 [fd |-> CASE i = 0 -> sock_stdout
                           [] i = 1 -> sock_stderr
                           [] i = 2 -> STDIN_FILENO,
                  events |-> POLLIN,
                  revents |-> fds[i].revents]]
    /\ pc' = "poll"
    /\ UNCHANGED << exit_status, err_msg, inputVars, sockVars, port, new_argv,
                    rd, amnt, ret, ret_buff, is_eof, osVars, sa, relayVars,
                    harnessVars, archVars >>

NextRequest ==
    \/ ParseArgs
    \/ PrepareData
    \/ ConnectSv
    \/ SendArgc
    \/ SendAmtBytes
    \/ SendCwdArgv
    \/ send_all_loop
    \/ ConnectStdout
    \/ ConnectStderr
    \/ ConnectStdin
    \/ SetupFds

(***************************************************************************)
(* Command lines and working directories the request phase is run on.      *)
(***************************************************************************)
Str_echo == << 101, 99, 104, 111 >>
Str_hello == << 104, 101, 108, 108, 111 >>
Str_ls == << 108, 115 >>
Str_tmp == << 47, 116, 109, 112 >>                    \* "/tmp"
Str_root == << 47 >>                                  \* "/"

\* Port strings: "0", "4000", "65532", "65533", "65535" are accepted,
\* "70000", "", "-1", "12a" and " 80" are not.
PortStrs ==
    { << 48 >>, << 52, 48, 48, 48 >>, << 54, 53, 53, 51, 50 >>,
      << 54, 53, 53, 51, 51 >>, << 54, 53, 53, 51, 53 >>,
      << 55, 48, 48, 48, 48 >>, << >>, << 45, 49 >>, << 49, 50, 97 >>,
      << 32, 56, 48 >> }

\* Argument strings "", "a", "ab", ... and "b".
GenStrs == {[i \in 1..n |-> 96 + i] : n \in 0..MaxStrLen} \cup {<< 98 >>}

GenArgs == UNION {[1..n -> GenStrs] : n \in 1..MaxArgs}

\* Every string of at most MaxPortLen chars over '0', '6', '+', '-', ' '
\* and 'a', and strings at the edges of the port and of the int range:
\* "65536", "007", "-0", "+80", "4000 ", "\t80", "0x10", "2147483647",
\* "2147483648", "-2147483648", "-2147483649", "99999999999999999999".
PortChars == {48, 54, 43, 45, 32, 97}

GenPortStrs ==
    UNION {[1..n -> PortChars] : n \in 0..MaxPortLen}
    \cup { << 54, 53, 53, 51, 54 >>, << 48, 48, 55 >>, << 45, 48 >>,
           << 43, 56, 48 >>, << 52, 48, 48, 48, 32 >>, << 9, 56, 48 >>,
           << 48, 120, 49, 48 >>,
           << 50, 49, 52, 55, 52, 56, 51, 54, 52, 55 >>,
           << 50, 49, 52, 55, 52, 56, 51, 54, 52, 56 >>,
           << 45, 50, 49, 52, 55, 52, 56, 51, 54, 52, 56 >>,
           << 45, 50, 49, 52, 55, 52, 56, 51, 54, 52, 57 >>,
           [i \in 1..20 |-> 57] }

CmdLines ==
    {<< PRG_NAME, DashP, ps, Str_echo, Str_hello >> : ps \in PortStrs}
    \cup {<< DotSlashPrgName, DashP, ps, Str_ls >> : ps \in GenPortStrs}
    \cup {<< PRG_NAME >>, << PRG_NAME, DashP, << 52, 48, 48, 48 >> >>,
          << DotSlashPrgName, Str_ls >>, << Str_ls, Str_tmp >>}
    \cup {<< PRG_NAME >> \o a : a \in GenArgs}
    \cup {<< Str_ls >> \o a : a \in GenArgs}

Init ==
    /\ Blank
    /\ ArchUnused
    /\ pc = "parse_args"
    /\ argv \in CmdLines
    /\ env_cwd \in {Str_root, Str_tmp}
    /\ fdt = [f \in SockFds |-> NoSocket]
    /\ h_in = [conn |-> -1, buf |-> << >>]
    /\ v_in = 0

Spec == Init /\ [][NextRequest]_vars

(***************************************************************************)
(* main, lines 400-421: the relay loop, with handle_poll_event.            *)
(***************************************************************************)
\* sizeof buff in handle_poll_event.
BUFF_SIZE == 1024

\* The bytes relay source i (0 remote stdout, 1 remote stderr, 2 local
\* stdin) delivers before its end of file; no byte occurs twice.
Source(i) == [k \in 1..MaxData |-> 16 * (i + 1) + k]

\* What poll can report in revents for entry i. A connected TCP socket
\* (entries 0 and 1) is readable, readable with the hangup of a closed
\* connection, or in error; local stdin (entry 2) is readable, hung up with
\* nothing to read (a pipe whose writer has gone), or not an open
\* descriptor at all.
Revents(i) ==
    IF i = 2 THEN {0, POLLIN, POLLHUP, POLLNVAL}
    ELSE {0, POLLIN, POLLIN + POLLHUP, POLLERR}

\* events_error: ev = p->events for each of the evs entries.
events_error(p, evs) ==
    IF \E i \in 0..(evs - 1) :
          \/ BitAnd(p[i].events, POLLHUP) # 0
          \/ BitAnd(p[i].events, POLLERR) # 0
          \/ BitAnd(p[i].events, POLLNVAL) # 0
    THEN 1 ELSE 0

\* shutdown(f, SHUT_RDWR); close(f).
ShutdownClose(t, f) ==
    [t EXCEPT ![f].shut = TRUE, ![f].state = "closed", ![f].closes = @ + 1]

\* A teardown that shuts the socket down before it closes it.
Close_after_shutdown(t, f) ==
    [t EXCEPT ![f].shut = TRUE, ![f].state = "closed", ![f].closes = @ + 1]

\* close(f) alone.
Close(t, f) ==
    [t EXCEPT ![f].state = "closed", ![f].closes = @ + 1]

\* The relay destination out_fd stands for: 0 local stdout, 1 local
\* stderr, 2 the remote stdin socket.
DstOf(out_fd) ==
    CASE out_fd = STDOUT_FILENO -> 0
      [] out_fd = STDERR_FILENO -> 1
      [] out_fd = sock_stdin -> 2

\* A write of the whole of buff, whatever the read delivered.
written_whole_buff(b, a, w) == IF w < 0 THEN << >> ELSE b

\* handle_poll_event, line 337: write(out_fd, buff, amnt) returned w; the
\* bytes that went out.
written(b, a, w) == SubSeq(b, 1, IF w < 0 THEN 0 ELSE w)

\* A handle_poll_event that leaves the poll entry as it is.
pfd_after_close_kept(p, i) == p

\* handle_poll_event, line 327: pfd->fd = -1.
pfd_after_close(p, i) == [p EXCEPT ![i].fd = -1]

\* handle_poll_event: its return value and *is_eof, for a read that
\* returned a and a write that returned w.
hpe_ret(a, w) == IF a <= 0 THEN -1 ELSE IF w # a THEN -1 ELSE 0
hpe_eof(a) == IF a = 0 THEN 1 ELSE 0

\* handle_poll_event(&fds[i], out_fd, is_sock, &is_eof): read returns a,
\* and, when a > 0, write returns w.
handle_poll_event(i, out_fd, is_sock, a, w) ==
    /\ is_eof' = hpe_eof(a)
    /\ svc' = Append(svc, [src |-> i, amnt |-> a, ret |-> hpe_ret(a, w)])
    /\ IF a <= 0
       THEN LET cfd == IF is_sock # 0 THEN fds[i].fd ELSE out_fd
            IN  /\ fdt' = ShutdownClose(fdt, cfd)
                /\ fds' = pfd_after_close(fds, i)
                /\ UNCHANGED << buff, src_pos, dst, poll_ret >>
       ELSE LET chunk == SubSeq(Source(i), src_pos[i] + 1, src_pos[i] + a)
                nbuff == chunk \o SubSeq(buff, a + 1, Len(buff))
            IN  /\ buff' = nbuff
                /\ src_pos' = [src_pos EXCEPT ![i] = @ + a]
                /\ dst' = [dst EXCEPT ![DstOf(out_fd)] =
                             @ \o written(nbuff, a, w)]
                /\ UNCHANGED << fdt, fds, poll_ret >>

\* The outcomes of read and write in handle_poll_event on source i.
ReadOutcomes(i) == {-1, 0} \cup (1..Min(BUFF_SIZE, MaxData - src_pos[i]))
WriteOutcomes(a) == IF a <= 0 THEN {0} ELSE {-1} \cup (1..a)

\* main, line 400: poll(fds, 3, -1). It fails, or reports events for at
\* least one entry; an entry whose fd is negative is ignored.
Poll ==
    /\ pc = "poll"
    /\ svc' = << >>
    /\ \/ /\ pc' = "recv"
          /\ poll_ret' = -1
          /\ UNCHANGED fds
       \/ \E rv \in [0..2 -> {0, POLLIN, POLLHUP, POLLERR, POLLNVAL,
                               POLLIN + POLLHUP}] :
            /\ \A i \in 0..2 : rv[i] \in Revents(i)
            /\ \A i \in 0..2 : fds[i].fd < 0 => rv[i] = 0
            /\ \E i \in 0..2 : rv[i] # 0
            /\ fds' = [i \in 0..2 |-> [fds[i] EXCEPT !.revents = rv[i]]]
            /\ poll_ret' = Cardinality({i \in 0..2 : rv[i] # 0})
            /\ pc' = "events_error"
    /\ UNCHANGED << exit_status, err_msg, inputVars, sockVars, port, new_argv,
                    rd, amnt, ret, ret_buff, is_eof, osVars, sa, buff, src_pos,
                    dst, harnessVars, archVars >>

\* main, lines 402-403.
CheckEvents ==
    /\ pc = "events_error"
    /\ pc' = IF events_error(fds, 3) # 0 THEN "recv" ELSE "svc0"
    /\ UNCHANGED << exit_status, err_msg, inputVars, sockVars, mainVars, osVars,
                    sa, relayVars, harnessVars, archVars >>

\* Mutations of the break conditions: the remote stdout site spares a clean
\* end of file, the local stdin site does not.
stdout_breaks_unless_eof(r, eof) == r < 0 /\ eof = 0
stdin_breaks_on_eof(r, eof) == r < 0

\* main, lines 406-407, 410-411 and 415-419: whether the loop is left after
\* handle_poll_event returned r with *is_eof = eof.
stdout_breaks(r, eof) == r < 0
stderr_breaks(r, eof) == r < 0
stdin_breaks(r, eof) == r < 0 /\ eof = 0

\* A test that takes an entry for readable only when POLLIN is all that
\* poll reported for it.
revents_pollin_alone(p, i) == p[i].revents = POLLIN

\* main, lines 405, 409 and 413: fds[i].revents & POLLIN.
revents_pollin(p, i) == BitAnd(p[i].revents, POLLIN) # 0

\* main, lines 405-407.
HandleStdout ==
    /\ pc = "svc0"
    /\ IF revents_pollin(fds, 0)
       THEN \E a \in ReadOutcomes(0) : \E w \in WriteOutcomes(a) :
              /\ handle_poll_event(0, STDOUT_FILENO, 1, a, w)
              /\ pc' = IF stdout_breaks(hpe_ret(a, w), hpe_eof(a))
                       THEN "recv" ELSE "svc1"
       ELSE /\ pc' = "svc1"
            /\ UNCHANGED << is_eof, fds, fdt, relayVars >>
    /\ UNCHANGED << exit_status, err_msg, inputVars, sockVars, port, new_argv,
                    rd, amnt, ret, ret_buff, conn_log, sa, harnessVars, archVars >>

\* main, lines 409-411.
HandleStderr ==
    /\ pc = "svc1"
    /\ IF revents_pollin(fds, 1)
       THEN \E a \in ReadOutcomes(1) : \E w \in WriteOutcomes(a) :
              /\ handle_poll_event(1, STDERR_FILENO, 1, a, w)
              /\ pc' = IF stderr_breaks(hpe_ret(a, w), hpe_eof(a))
                       THEN "recv" ELSE "svc2"
       ELSE /\ pc' = "svc2"
            /\ UNCHANGED << is_eof, fds, fdt, relayVars >>
    /\ UNCHANGED << exit_status, err_msg, inputVars, sockVars, port, new_argv,
                    rd, amnt, ret, ret_buff, conn_log, sa, harnessVars, archVars >>

\* main, lines 413-420.
HandleStdin ==
    /\ pc = "svc2"
    /\ IF revents_pollin(fds, 2)
       THEN \E a \in ReadOutcomes(2) : \E w \in WriteOutcomes(a) :
              /\ handle_poll_event(2, sock_stdin, 0, a, w)
              /\ pc' = IF stdin_breaks(hpe_ret(a, w), hpe_eof(a))
                       THEN "recv" ELSE "poll"
       ELSE /\ pc' = "poll"
            /\ UNCHANGED << is_eof, fds, fdt, relayVars >>
    /\ UNCHANGED << exit_status, err_msg, inputVars, sockVars, port, new_argv,
                    rd, amnt, ret, ret_buff, conn_log, sa, harnessVars, archVars >>

(***************************************************************************)
(* main, lines 423-442: the exit status and the teardown.                  *)
(***************************************************************************)
\* What recv(sock, ret_buff, 4, 0) can do: fail, or deliver the first n
\* bytes of a status the server sent (n < 4: the peer closed early).
StatusSamples ==
    { << 0, 0, 0, 0 >>, << 0, 0, 0, 42 >>, << 1, 2, 3, 4 >>,
      << 255, 255, 255, 255 >>, << 128, 0, 0, 0 >> }
RecvOutcomes ==
    {[n |-> 4, bytes |-> b] : b \in StatusSamples}
    \cup {[n |-> n, bytes |-> SubSeq(<< 1, 2, 3, 4 >>, 1, n)] : n \in 0..3}
    \cup {[n |-> -1, bytes |-> << >>]}

\* A mutation of the test of line 424: any read that delivered bytes is
\* decoded.
status_after_recv_any(n, buf, old) == IF n <= 0 THEN old ELSE msg_to_int32(buf)

\* main, lines 424-427: ret after recv returned n with ret_buff = buf.
status_after_recv(n, buf, old) == IF n # 4 THEN old ELSE msg_to_int32(buf)

\* main, lines 424-427.
Recv ==
    /\ pc = "recv"
    /\ \E o \in RecvOutcomes :
         LET nb == o.bytes \o SubSeq(ret_buff, Len(o.bytes) + 1, 4)
         IN  /\ amnt' = o.n
             /\ ret_buff' = nb
             /\ ret' = status_after_recv(o.n, nb, ret)
    /\ pc' = "out"
    /\ UNCHANGED << exit_status, err_msg, inputVars, sockVars, port, new_argv,
                    rd, is_eof, fds, osVars, sa, relayVars, harnessVars, archVars >>

\* main, lines 430-442: exit_status is the value main returns.
Teardown ==
    /\ pc = "out"
    /\ LET t0 == Close(fdt, sock)
           t1 == IF fds[0].fd >= 0 THEN Close(t0, sock_stdout) ELSE t0
           t2 == IF fds[1].fd >= 0 THEN Close(t1, sock_stderr) ELSE t1
           t3 == IF fds[2].fd >= 0 THEN Close(t2, sock_stdin) ELSE t2
       IN  fdt' = t3
    /\ exit_status' = ret
    /\ pc' = "done"
    /\ UNCHANGED << err_msg, inputVars, sockVars, mainVars, conn_log, sa,
                    relayVars, harnessVars, archVars >>

NextRelay ==
    \/ Poll
    \/ CheckEvents
    \/ HandleStdout
    \/ HandleStderr
    \/ HandleStdin
    \/ Recv
    \/ Teardown

NextMain == NextRequest \/ NextRelay

\* The whole of main on the command line "client -p 4000 echo hello" run
\* in /tmp.
InitRelay ==
    /\ Blank
    /\ ArchUnused
    /\ pc = "parse_args"
    /\ argv = << PRG_NAME, DashP, << 52, 48, 48, 48 >>, Str_echo, Str_hello >>
    /\ env_cwd = Str_tmp
    /\ fdt = [f \in SockFds |-> NoSocket]
    /\ h_in = [conn |-> -1, buf |-> << >>]
    /\ v_in = 0

SpecRelay == InitRelay /\ [][NextMain]_vars

(***************************************************************************)
(* Properties of the relay and of the exit status (SpecRelay).             *)
(***************************************************************************)
\* The step is a call of handle_poll_event on source i (svc gains the entry
\* of that call); LastAmnt is what its read returned.
Serviced(i) ==
    /\ Len(svc') = Len(svc) + 1
    /\ svc'[Len(svc')].src = i
LastAmnt == svc'[Len(svc')].amnt

\* poll reported a hangup, an error or an invalid descriptor on an entry.
ErrorReported ==
    \E i \in 0..2 :
        \/ BitAnd(fds[i].revents, POLLHUP) # 0
        \/ BitAnd(fds[i].revents, POLLERR) # 0
        \/ BitAnd(fds[i].revents, POLLNVAL) # 0

AfterLoop == {"recv", "out", "done"}

BigEndianInt32(b) ==
    (IF b[1] >= 128 THEN b[1] - 256 ELSE b[1]) * 16777216
       + b[2] * 65536 + b[3] * 256 + b[4]

\* C2: main returns 42 when recv on the control socket did not return
\* exactly 4, and the big-endian int32 value of the 4 bytes when it did.
C2_ExitStatus ==
    pc = "done" =>
        /\ amnt \in -1..4
        /\ amnt # 4 => exit_status = 42
        /\ amnt = 4 => exit_status = BigEndianInt32(ret_buff)

\* C2 witness: the peer closed after 3 of the 4 bytes and main returned 42.
C2_Witness ==
    /\ pc = "done"
    /\ amnt = 3
    /\ ret_buff = << 1, 2, 3, 0 >>
    /\ exit_status = 42

\* C5 as stated: when poll reports POLLHUP, POLLERR or POLLNVAL on any of
\* the three descriptors, the loop is left in that iteration and no source
\* is serviced; the loop is also left when poll fails.
C5_HangupEndsRelay ==
    /\ [][(pc = "events_error" /\ ErrorReported) =>
            (pc' = "recv" /\ svc' = << >>)]_vars
    /\ [][(pc = "poll" /\ poll_ret' = -1) => pc' = "recv"]_vars

\* C6: servicing local stdin. A read of 0 shuts down and closes the
\* remote-stdin socket, sets the pollfd entry to -1 and goes back to poll
\* with the remote entries untouched; a read error, or a write to the
\* remote-stdin socket that did not take the whole chunk, leaves the loop.
\* Once its entry is -1, stdin is never serviced again.
C6_StdinService ==
    /\ [][(pc = "svc2" /\ Serviced(2)) =>
            /\ LastAmnt = 0 =>
                 /\ pc' = "poll"
                 /\ is_eof' = 1
                 /\ fdt'[sock_stdin].state = "closed"
                 /\ fdt'[sock_stdin].shut
                 /\ fds'[2].fd = -1
                 /\ fds'[0] = fds[0] /\ fds'[1] = fds[1]
            /\ LastAmnt < 0 => pc' = "recv"
            /\ (LastAmnt > 0 /\ Len(dst'[2]) - Len(dst[2]) # LastAmnt) =>
                 pc' = "recv"
            /\ (LastAmnt > 0 /\ Len(dst'[2]) - Len(dst[2]) = LastAmnt) =>
                 pc' = "poll"]_vars
    /\ [][(pc = "svc2" /\ fds[2].fd < 0) => (svc' = svc /\ pc' = "poll")]_vars

\* C6 witness: after the end of file of local stdin (its entry is -1, the
\* remote-stdin socket is closed) the loop went on and relayed a chunk of
\* remote stdout.
C6_Witness ==
    /\ pc = "svc1"
    /\ fds[2].fd = -1
    /\ fdt[sock_stdin].state = "closed"
    /\ svc = << [src |-> 0, amnt |-> 1, ret |-> 0] >>
    /\ fds[0].fd >= 0 /\ fds[1].fd >= 0

(***************************************************************************)
(* Properties of the request phase (Spec).                                 *)
(***************************************************************************)
ConnectErrMsgs ==
    << "Unable to connect on sv port!", "Unable to connect on stdout port!",
       "Unable to connect on stderr port!", "Unable to connect on stdin port!" >>

\* The request as the protocol frames it.
Request == rd.argc \o rd.amt_bytes \o SubSeq(rd.cwd_argv, 1, amnt)

\* The k-th socket main creates is descriptor k + 2.
FdOfConnect(k) == k + 2

\* C3 as stated: when one of the four connects fails, the process exits
\* with a failure status and no byte has been sent on any socket.
C3_NoByteSentOnConnectFailure ==
    \A k \in 1..4 :
        (fdt[FdOfConnect(k)].state = "open" /\ ~fdt[FdOfConnect(k)].connected) =>
            /\ pc = "exit" /\ exit_status = EXIT_FAILURE
            /\ \A f \in SockFds : fdt[f].sent = << >>

\* C3 amended: when one of the four connects fails, the process exits with
\* a failure status (and the message of that connect). If it is the control
\* connect, no byte has been sent on any socket; if it is the stdout,
\* stderr or stdin connect, the whole request has been sent on the control
\* socket and no byte on any other socket.
C3_ConnectFailureIsFatal ==
    \A k \in 1..4 :
        (fdt[FdOfConnect(k)].state = "open" /\ ~fdt[FdOfConnect(k)].connected) =>
            /\ pc = "exit" /\ exit_status = EXIT_FAILURE
            /\ err_msg = ConnectErrMsgs[k]
            /\ \A j \in (k + 1)..4 : fdt[FdOfConnect(j)].state = "unused"
            /\ \A f \in SockFds \ {sock} : fdt[f].sent = << >>
            /\ k = 1 => fdt[sock].sent = << >>
            /\ k > 1 => fdt[sock].sent = Request

\* C3 witness: the stderr connect failed after the 16-byte payload of
\* "client -p 4000 echo hello" and its header went out.
C3_Witness ==
    /\ pc = "exit"
    /\ err_msg = "Unable to connect on stderr port!"
    /\ fdt[5].state = "open" /\ ~fdt[5].connected
    /\ Len(fdt[sock].sent) = 24

\* The NUL-terminated fields of a byte sequence, in order; bytes after the
\* last NUL form no field.
RECURSIVE SplitNul(_)
SplitNul(bytes) ==
    IF \A i \in 1..Len(bytes) : bytes[i] # 0 THEN << >>
    ELSE LET z == CHOOSE i \in 1..Len(bytes) :
                     bytes[i] = 0 /\ \A j \in 1..(i - 1) : bytes[j] # 0
         IN  << SubSeq(bytes, 1, z - 1) >> \o SplitNul(SubSeq(bytes, z + 1, Len(bytes)))

\* prepare_data has returned its buffer.
Prepared == rd.cwd_argv # << >>

\* C8: the first payload_length bytes of the buffer prepare_data built end
\* with a NUL and split at the NULs into argument_count + 1 fields: the
\* working directory, then the arguments in order, each unchanged.
C8_PayloadRoundTrip ==
    Prepared =>
        LET payload == SubSeq(rd.cwd_argv, 1, amnt)
        IN  /\ Len(rd.cwd_argv) = amnt + 1
            /\ payload[amnt] = 0
            /\ Len(SplitNul(payload)) = BigEndianInt32(rd.argc) + 1
            /\ SplitNul(payload) = << env_cwd >> \o new_argv

\* C8 witness: cwd "/tmp" and the arguments "", "ab" (an empty argument
\* keeps its own field).
C8_Witness ==
    /\ pc = "connect_sv"
    /\ env_cwd = Str_tmp
    /\ new_argv = << << >>, << 97, 98 >> >>
    /\ SubSeq(rd.cwd_argv, 1, amnt) = << 47, 116, 109, 112, 0, 0, 97, 98, 0 >>

\* The sum of (length + 1) over a list of strings.
RECURSIVE SumLenPlusOne(_)
SumLenPlusOne(strs) ==
    IF strs = << >> THEN 0 ELSE Len(Head(strs)) + 1 + SumLenPlusOne(Tail(strs))

\* C9: the payload_length of the header is the sum of (length + 1) over the
\* working directory and every argument, the argument_count of the header
\* is the number of arguments, and payload_length is the count main hands
\* to send_all with the payload (so the request on the wire is 8 +
\* payload_length bytes).
C9_PayloadLength ==
    Prepared =>
        /\ BigEndianInt32(rd.amt_bytes) = SumLenPlusOne(<< env_cwd >> \o new_argv)
        /\ BigEndianInt32(rd.argc) = Len(new_argv)
        /\ amnt = BigEndianInt32(rd.amt_bytes)
        /\ (pc = "send_all" /\ sa.caller = "send_cwd_argv") =>
              /\ sa.n = BigEndianInt32(rd.amt_bytes)
              /\ sa.buf = rd.cwd_argv
              /\ sa.conn = sock
        /\ pc \in {"connect_stdout", "connect_stderr", "connect_stdin",
                   "setup_fds", "poll"} =>
              Len(fdt[sock].sent) = 8 + BigEndianInt32(rd.amt_bytes)

\* C9 witness: cwd "/tmp" with the arguments echo, hello: argument_count 2
\* and payload_length 16 in the header, 16 bytes handed to send_all.
C9_Witness ==
    /\ pc = "send_all" /\ sa.caller = "send_cwd_argv"
    /\ env_cwd = Str_tmp /\ new_argv = << Str_echo, Str_hello >>
    /\ rd.argc = << 0, 0, 0, 2 >>
    /\ rd.amt_bytes = << 0, 0, 0, 16 >>
    /\ sa.n = 16 /\ sa.p = 0

\* C10 as stated: for every accepted base port the four connects go, in
\* this order, to base_port (control), base_port + 1 (stdout), base_port + 2
\* (stderr) and base_port + 3 (stdin).
C10_ConnectPorts ==
    /\ Len(conn_log) <= 4
    /\ \A k \in 1..Len(conn_log) :
          /\ conn_log[k].port = port + (k - 1)
          /\ conn_log[k].fd = << sock, sock_stdout, sock_stderr, sock_stdin >>[k]

(***************************************************************************)
(* Port validation of parse_args.                                          *)
(***************************************************************************)
\* The value of the first n chars of a digit string, saturated above the
\* port range.
RECURSIVE DecimalCapped(_, _)
DecimalCapped(s, n) ==
    IF n = 0 THEN 0
    ELSE Min(65536, DecimalCapped(s, n - 1) * 10 + (s[n] - 48))

\* s is a base-10 integer: an optional sign and one or more digits.
IsDecimalInt(s) ==
    LET digits == IF Len(s) >= 1 /\ s[1] \in {43, 45} THEN Tail(s) ELSE s
    IN  /\ Len(digits) >= 1
        /\ \A i \in 1..Len(digits) : digits[i] \in 48..57

DecimalValue(s) ==
    LET digits == IF s[1] \in {43, 45} THEN Tail(s) ELSE s
        m == DecimalCapped(digits, Len(digits))
    IN  IF s[1] = 45 THEN -m ELSE m

IsPortString(s) == IsDecimalInt(s) /\ DecimalValue(s) \in 0..65535

NoSocketCreated ==
    /\ \A f \in SockFds : fdt[f].state = "unused"
    /\ conn_log = << >>

WithPortOption ==
    /\ Len(argv) >= 4
    /\ argv[1] \in {PRG_NAME, DotSlashPrgName}
    /\ argv[2] = DashP

\* C11: under the canonical name with -p <port>, a port string that is not
\* a base-10 integer in [0, 65535] ends the process with the usage error
\* and the failure status before any socket is created or connected, and
\* every integer string in [0, 65535] is accepted as the base port.
C11_PortValidation ==
    (WithPortOption /\ pc # "parse_args") =>
        IF IsPortString(argv[3])
        THEN /\ port = DecimalValue(argv[3])
             /\ err_msg # "Usage:"
        ELSE /\ pc = "exit"
             /\ exit_status = EXIT_FAILURE
             /\ err_msg = "Usage:"
             /\ NoSocketCreated

\* "4000 " (a trailing char) has been rejected.
C11_Witness ==
    /\ WithPortOption
    /\ argv[3] = << 52, 48, 48, 48, 32 >>
    /\ pc = "exit" /\ err_msg = "Usage:" /\ exit_status = EXIT_FAILURE
    /\ NoSocketCreated

(***************************************************************************)
(* arch_aarch64.c: the entry-point patcher.                                *)
(***************************************************************************)
\* The addresses a patch may be applied at: the whole patch lies in the
\* modelled memory. Two of them may be less than PatchSize apart.
Starts == {a \in Addrs : a + PatchSize - 1 <= MemSize /\ a % 8 = 1}

\* The address of arch_pre_daemon_main, as four 16-bit limbs, the most
\* significant first.
HookAddrs ==
    { << 0, 43690, 49374, 4660 >>, << 0, 0, 64, 4096 >>,
      << 65535, 65280, 255, 32769 >> }

\* A copy that stops after the first eight bytes.
mem_read_half(m, a, n) == [i \in 1..n |-> IF i <= 8 THEN m[a + i - 1] ELSE 0]

\* memcpy(dst, (void *) a, n): the n bytes of memory from a.
mem_read(m, a, n) == [i \in 1..n |-> m[a + i - 1]]

\* memcpy((void *) a, bytes, Len(bytes)): the memory afterwards.
mem_write(m, a, bytes) ==
    [x \in Addrs |-> IF x >= a /\ x < a + Len(bytes) THEN bytes[x - a + 1]
                     ELSE m[x]]

\* The bytes of the 64-bit value, the most significant first whatever the
\* build's byte order.
u_addr_val_msb_first(addr, be) ==
    [i \in 1..8 |->
        LET limb == addr[((i - 1) \div 2) + 1]
        IN  IF (i - 1) % 2 = 0 THEN (limb \div 256) % 256 ELSE limb % 256]

\* u_addr.val once u_addr.addr is assigned: the bytes of the 64-bit value
\* as they lie in memory on the build's byte order.
u_addr_val(addr, be) ==
    [i \in 1..8 |->
        LET k == IF be THEN 8 - i ELSE i - 1
            limb == addr[4 - (k \div 2)]
        IN  IF k % 2 = 0 THEN limb % 256 ELSE (limb \div 256) % 256]

\* bck_start after memcpy(bck_start, (void *) start, sizeof patch) only
\* when it held nothing yet.
bck_after_backup_if_empty(bck, m, start) ==
    IF bck = [i \in 1..PatchSize |-> 0] THEN mem_read(m, start, PatchSize)
    ELSE bck

\* bck_start after memcpy(bck_start, (void *) start, sizeof patch): what
\* it held before is lost.
bck_after_backup(bck, m, start) == mem_read(m, start, PatchSize)

\* patch after the loop of lines 91-92.
patch_filled(p, val) ==
    [i \in 1..PatchSize |-> IF i >= 9 THEN val[i - 8] ELSE p[i]]

\* arch_patch_start(start).
ArchPatchStart ==
    /\ pc = "arch"
    /\ Len(calls) < MaxCalls
    /\ \E start \in Starts :
          /\ arch_addr_start' = start
          /\ bck_start' = bck_after_backup(bck_start, mem, start)
          /\ patch' = patch_filled(patch, u_addr_val(hook, big_endian))
          /\ mem' = mem_write(mem, start, patch')
          /\ arch_ret' = 0
          /\ calls' = Append(calls, [op |-> "patch", start |-> start,
                                     before |-> mem])
    /\ UNCHANGED << procVars, inputVars, sockVars, mainVars, osVars, sa,
                    relayVars, harnessVars, hook, big_endian >>

\* arch_restore_start(). Before any arch_patch_start, arch_addr_start is
\* the null pointer and the memcpy to it ends the process.
ArchRestoreStart ==
    /\ pc = "arch"
    /\ Len(calls) < MaxCalls
    /\ calls' = Append(calls, [op |-> "restore", start |-> arch_addr_start,
                               before |-> mem])
    /\ IF arch_addr_start = 0
       THEN /\ pc' = "segv"
            /\ UNCHANGED << mem, arch_ret >>
       ELSE /\ mem' = mem_write(mem, arch_addr_start, bck_start)
            /\ arch_ret' = PatchSize - 8
            /\ pc' = "arch"
    /\ UNCHANGED << exit_status, err_msg, inputVars, sockVars, mainVars,
                    osVars, sa, relayVars, harnessVars, arch_addr_start,
                    patch, bck_start, hook, big_endian >>

NextArch == ArchPatchStart \/ ArchRestoreStart

InitArch ==
    /\ Blank
    /\ pc = "arch"
    /\ argv = << >> /\ env_cwd = << >>
    /\ fdt = [f \in SockFds |-> NoSocket]
    /\ h_in = [conn |-> -1, buf |-> << >>]
    /\ v_in = 0
    /\ mem \in {MemImage(k) : k \in 0..(MaxImages - 1)}
    /\ hook \in HookAddrs
    /\ big_endian \in BOOLEAN

SpecArch == InitArch /\ [][NextArch]_vars

\* The bytes at [a, a + PatchSize) in memory m.
Region(m, a) == [i \in 1..PatchSize |-> m[a + i - 1]]

LastCall == calls[Len(calls)]

\* C12: an apply immediately followed by a restore leaves the 16 bytes at
\* the patched address equal to what they were before the apply; this
\* holds for every such pair of a sequence, whatever address each pair
\* uses.
C12_ApplyRestoreRoundTrip ==
    [][(/\ pc = "arch"
        /\ Len(calls) >= 1
        /\ LastCall.op = "patch"
        /\ Len(calls') = Len(calls) + 1
        /\ calls'[Len(calls')].op = "restore")
       => (Region(mem', LastCall.start) = Region(LastCall.before,
                                                 LastCall.start))]_vars

\* Two apply/restore pairs at different addresses have run and the memory
\* is what it was at the start.
C12_Witness ==
    /\ Len(calls) = 4
    /\ calls[1].op = "patch" /\ calls[2].op = "restore"
    /\ calls[3].op = "patch" /\ calls[4].op = "restore"
    /\ calls[1].start # calls[3].start
    /\ mem = calls[1].before
    /\ calls[2].before # calls[1].before

(***************************************************************************)
(* The request on the control connection.                                  *)
(***************************************************************************)
\* The payload prepare_data built: its buffer without the spare last byte.
Payload == SubSeq(rd.cwd_argv, 1, Len(rd.cwd_argv) - 1)

ControlStream == rd.argc \o rd.amt_bytes \o Payload

RequestSent == {"connect_stdout", "connect_stderr", "connect_stdin",
                "setup_fds", "poll", "events_error", "svc0", "svc1", "svc2",
                "recv", "out", "done"}

\* The message of the part at which a control stream of n bytes stops.
PartErrMsg(n) ==
    IF n < 4 THEN "Cant send argc, aborting!..."
    ELSE IF n < 8 THEN "Cant send amt_bytes, aborting!..."
    ELSE "Cant send cwd_argv, aborting!..."

\* C13: the control connection carries, in this order, the argument count
\* as 4 big-endian bytes, the payload length as 4 big-endian bytes and the
\* payload; a part starts only when the part before is sent whole; when a
\* part fails the process exits with the failure status; nothing else is
\* ever sent on the control connection.
C13_ControlStream ==
    /\ ~Prepared => \A f \in SockFds : fdt[f].sent = << >>
    /\ Prepared =>
         /\ BigEndianInt32(rd.argc) = Len(new_argv)
         /\ BigEndianInt32(rd.amt_bytes) = Len(Payload)
         /\ IsPrefix(Sent(sock), ControlStream)
    /\ pc = "send_argc" => Sent(sock) = << >>
    /\ (pc = "send_all" /\ sa.caller = "send_argc") =>
          Len(Sent(sock)) < 4
    /\ pc = "send_amt_bytes" => Sent(sock) = rd.argc
    /\ (pc = "send_all" /\ sa.caller = "send_amt_bytes") =>
          Len(Sent(sock)) \in 4..7
    /\ pc = "send_cwd_argv" => Sent(sock) = rd.argc \o rd.amt_bytes
    /\ (pc = "send_all" /\ sa.caller = "send_cwd_argv") =>
          Len(Sent(sock)) \in 8..(Len(ControlStream) - 1)
    /\ pc \in RequestSent => Sent(sock) = ControlStream
    /\ (/\ pc = "exit" /\ Prepared /\ sock \in SockFds
        /\ fdt[sock].connected /\ Sent(sock) # ControlStream) =>
          /\ exit_status = EXIT_FAILURE
          /\ err_msg = PartErrMsg(Len(Sent(sock)))

\* main has returned after relaying stdin bytes, and the control
\* connection carried the 24 bytes of the request and no more.
C13_Witness ==
    /\ pc = "done"
    /\ dst[2] # << >>
    /\ Len(Sent(sock)) = 24
    /\ Sent(sock) = ControlStream

(***************************************************************************)
(* The order of service within one return of poll.                         *)
(***************************************************************************)
\* poll reported entry i readable when it returned last.
ReportedReady(i) == (fds[i].revents \div POLLIN) % 2 = 1

\* handle_poll_event has run on source i since poll returned last.
ServicedSincePoll(i) == \E j \in 1..Len(svc) : svc[j].src = i

\* C14: within one return of poll the ready sources are serviced in the
\* order stdout, stderr, stdin, each at most once, and every source that
\* was reported ready has been serviced when poll is called again.
C14_ServiceOrder ==
    /\ \A j, k \in 1..Len(svc) : j < k => svc[j].src < svc[k].src
    /\ \A j \in 1..Len(svc) : ReportedReady(svc[j].src)
    /\ pc = "svc1" => (ReportedReady(0) => ServicedSincePoll(0))
    /\ pc = "svc2" =>
          \A i \in {0, 1} : ReportedReady(i) => ServicedSincePoll(i)
    /\ pc = "poll" =>
          \A i \in 0..2 : ReportedReady(i) => ServicedSincePoll(i)

\* poll reported all three sources ready, each was serviced once, in
\* order, and poll is about to be called again.
C14_Witness ==
    /\ pc = "poll"
    /\ Len(svc) = 3
    /\ svc[1].src = 0 /\ svc[2].src = 1 /\ svc[3].src = 2
    /\ \A i \in 0..2 : ReportedReady(i)

(***************************************************************************)
(* The teardown of main.                                                   *)
(***************************************************************************)
\* The four sockets of main, once all are created.
MainSockets == {sock, sock_stdout, sock_stderr, sock_stdin}

\* The relay has closed relay socket f itself: handle_poll_event set the
\* fd of its poll entry to -1.
ClosedByRelay(f) ==
    \/ f = sock_stdout /\ fds[0].fd < 0
    \/ f = sock_stderr /\ fds[1].fd < 0
    \/ f = sock_stdin /\ fds[2].fd < 0

\* C15 as stated: when main returns after the relay loop, every socket
\* that was still open when the loop ended has been shut down and closed.
C15_TeardownShutsDownAndCloses ==
    pc = "done" =>
        \A f \in MainSockets : fdt[f].state = "closed" /\ fdt[f].shut

\* C15, amended: when main returns after the relay loop, every socket that
\* was still open when the loop ended has been closed, by close alone;
\* only the sockets the relay closed itself were shut down first.
C15_TeardownCloses ==
    /\ pc = "out" =>
          \A f \in MainSockets :
              fdt[f].state = (IF ClosedByRelay(f) THEN "closed" ELSE "open")
    /\ pc = "done" =>
          \A f \in MainSockets :
              /\ fdt[f].state = "closed"
              /\ fdt[f].shut <=> ClosedByRelay(f)

\* main has returned; the relay had closed the stderr socket after a
\* shutdown, the teardown closed the other three without one.
C15_Witness ==
    /\ pc = "done"
    /\ fdt[sock_stderr].state = "closed" /\ fdt[sock_stderr].shut
    /\ \A f \in MainSockets \ {sock_stderr} :
          fdt[f].state = "closed" /\ ~fdt[f].shut

\* ldr x1, 8; blr x1: the instructions at the head of the patch.
Trampoline == << 65, 0, 0, 88, 32, 0, 63, 214 >>

\* The 64-bit value (four 16-bit limbs, the most significant first) that
\* eight bytes in memory hold on a build of the given byte order.
HostOrderValue(bytes, be) ==
    [j \in 1..4 |->
        IF be THEN bytes[2 * j - 1] * 256 + bytes[2 * j]
        ELSE bytes[2 * (4 - j) + 2] * 256 + bytes[2 * (4 - j) + 1]]

\* C16: after arch_patch_start(start) the 16 bytes at start are the fixed
\* 8-byte instruction sequence followed by the absolute address of the
\* interception routine in host byte order, the call has returned 0, and
\* no byte of the memory outside [start, start + 16) has changed.
C16_PatchFrame ==
    (Len(calls) >= 1 /\ LastCall.op = "patch") =>
        LET start == LastCall.start
            now == Region(mem, start)
        IN  /\ SubSeq(now, 1, 8) = Trampoline
            /\ HostOrderValue(SubSeq(now, 9, 16), big_endian) = hook
            /\ arch_ret = 0
            /\ \A a \in Addrs :
                  (a < start \/ a >= start + PatchSize) =>
                      mem[a] = LastCall.before[a]

\* A patch was applied at address 9 on a little-endian build, over memory
\* that held other bytes there; the routine's address ends in 0x1234.
C16_Witness ==
    /\ Len(calls) = 1
    /\ calls[1].op = "patch" /\ calls[1].start = 9
    /\ ~big_endian
    /\ hook = << 0, 43690, 49374, 4660 >>
    /\ mem[17] = 52 /\ mem[18] = 18
    /\ Region(calls[1].before, 9) # Region(mem, 9)

(***************************************************************************)
(* The life of the four sockets.                                           *)
(***************************************************************************)
\* The step is a call of handle_poll_event that reads from, or writes to,
\* a socket that is not open.
UsesClosedSocket ==
    \/ \E i \in {0, 1} :
          /\ Serviced(i)
          /\ ~(fds[i].fd \in SockFds /\ fdt[fds[i].fd].state = "open")
    \/ /\ Serviced(2)
       /\ LastAmnt > 0
       /\ fdt[sock_stdin].state # "open"

\* C17: when main returns each of its four sockets has been closed exactly
\* once; a socket that handle_poll_event closed is not closed again by the
\* teardown, no later step reads from it or writes to it, and its poll
\* entry is -1 whenever poll is called (so it is not polled again).
C17_ClosedExactlyOnce ==
    [][/\ \A f \in SockFds : fdt'[f].closes <= 1
       /\ pc' = "done" =>
             \A f \in {sock', sock_stdout', sock_stderr', sock_stdin'} :
                 fdt'[f].closes = 1
       /\ ~UsesClosedSocket
       /\ pc = "poll" =>
             /\ fds[0].fd = (IF fdt[sock_stdout].state = "closed" THEN -1
                             ELSE sock_stdout)
             /\ fds[1].fd = (IF fdt[sock_stderr].state = "closed" THEN -1
                             ELSE sock_stderr)
             /\ fdt[sock_stdin].state = "closed" => fds[2].fd = -1
       /\ pc = "recv" => fdt[sock].state = "open"]_vars

\* Local stdin ended, the relay closed the stdin socket and went on; later
\* main returned with every socket closed once.
C17_Witness ==
    /\ pc = "done"
    /\ fds[2].fd = -1 /\ fds[0].fd >= 0
    /\ fdt[sock_stdin].shut
    /\ src_pos[0] > 0
    /\ \A f \in MainSockets : fdt[f].closes = 1

(***************************************************************************)
(* The three relayed streams.                                              *)
(***************************************************************************)
\* The bytes read so far from relay source i.
ReadSoFar(i) == SubSeq(Source(i), 1, src_pos[i])

\* C18: at every point the bytes written to local stdout are a prefix of
\* the bytes read from the remote stdout socket, and likewise local stderr
\* for remote stderr and the remote stdin socket for local stdin: no byte
\* is duplicated, reordered or delivered to the destination of another
\* stream, although the three sources share one static buffer.
C18_StreamsArePrefixes ==
    \A i \in 0..2 : IsPrefix(dst[i], ReadSoFar(i))

\* Bytes of all three sources went through the shared buffer; the last
\* chunk, two bytes of stderr, was written short.
C18_Witness ==
    /\ dst[0] = Source(0)
    /\ dst[2] # << >>
    /\ src_pos[1] = 2 /\ Len(dst[1]) = 1
    /\ buff = Source(1)

\* The region at a holds the filled patch.
Patched(m, a) ==
    /\ SubSeq(Region(m, a), 1, 8) = Trampoline
    /\ HostOrderValue(SubSeq(Region(m, a), 9, 16), big_endian) = hook

\* The last three calls were two applies and a restore.
ApplyApplyRestore ==
    /\ Len(calls) >= 3
    /\ calls[Len(calls) - 2].op = "patch"
    /\ calls[Len(calls) - 1].op = "patch"
    /\ calls[Len(calls)].op = "restore"

\* C19: the patcher has one slot and no applied flag: every apply
\* overwrites the saved address and the backup. After apply(A); apply(A);
\* restore() the bytes at A are the trampoline and not the original bytes;
\* after apply(A); apply(B); restore() region A is still patched; every
\* one of these calls returns normally.
C19_SingleSlot ==
    /\ (Len(calls) >= 1 /\ LastCall.op = "patch") =>
          /\ arch_addr_start = LastCall.start
          /\ bck_start = Region(LastCall.before, LastCall.start)
          /\ pc = "arch" /\ arch_ret = 0
    /\ ApplyApplyRestore =>
          LET A == calls[Len(calls) - 2].start
              B == calls[Len(calls) - 1].start
          IN  /\ Patched(mem, A)
              /\ Region(mem, A) # Region(calls[1].before, A)
              /\ mem = calls[Len(calls) - 1].before
              /\ LastCall.start = B
              /\ pc = "arch" /\ arch_ret = PatchSize - 8

\* apply(1); apply(1); restore() have run: region 1 holds the trampoline,
\* the bytes it held at the start are lost.
C19_Witness ==
    /\ Len(calls) = 3
    /\ ApplyApplyRestore
    /\ calls[1].start = 1 /\ calls[2].start = 1
    /\ Patched(mem, 1)
    /\ bck_start # Region(calls[1].before, 1)

=============================================================================
